---- MODULE Spec2Model ----
(***************************************************************************)
(* Model of the UDP receiver of go-carbon (src/receiver/udp.go): the       *)
(* store of incomplete lines, the ingestion goroutine, the goroutine that  *)
(* reports and resets the counters, and Listen/Stop.                       *)
(*                                                                         *)
(* Time is counted in whole seconds.  Every call of time.Now() inside one  *)
(* step reads the same value of the clock `now`; the clock advances        *)
(* between steps (Tick).                                                   *)
(***************************************************************************)
EXTENDS Integers, Sequences, FiniteSets, TLC

\* ------------------------------------------------------------------ bounds
\* The clock stops at MaxTime.
MaxTime == 6
\* Datagrams with an effect that the socket delivers.
MaxDgrams == 3
\* Read failures other than "closed connection" that the socket reports.
MaxReadErrs == 1

\* ------------------------------------------------------- program constants
\* incompleteStorage.Expires, in seconds.
Expires == 5
\* Distance of NextPurge from the clock, in seconds.
PurgeInterval == 1
\* incompleteStorage.MaxSize.  The program uses 10000; the model scales the
\* threshold down to the number of peers so that the store can reach it.
MaxSize == 2
\* The counters are uint32.  TLC's integers are 32 bits wide and signed, so
\* the model keeps a counter as the signed reading of its 32 bits: u for
\* u <= MaxInt32, and u - 2^32 above.
MaxInt32 == 2147483647

\* The byte '\n' that ends a line, a byte of a well-formed record and a byte
\* that no well-formed record holds.
NL == "\n"
Bytes == {"a", "x", NL}

\* Peer addresses (peer.String()).
Peers == {"p1", "p2"}

\* The datagrams (buf[:rlen]) the socket delivers.
Dgrams ==
    { << >>, <<NL>>, <<"a">>, <<"a", NL>>, <<NL, "a">>, <<NL, NL>>,
      <<"x", NL>>, <<"a", NL, "a">> }

CounterNames == {"metricsReceived", "incompleteReceived", "errors"}

VARIABLES
    now,        \* the clock, in seconds
    conn,       \* rcv.conn: "nil", "open" or "closed"
    exit,       \* TRUE when the channel rcv.exit is closed
    finished,   \* TRUE when the channel rcv.finished is closed
    counters,   \* rcv.metricsReceived, rcv.incompleteReceived, rcv.errors
    lines,      \* the incompleteStorage of the ingestion goroutine
    pcI,        \* ingestion goroutine: "idle", "read", "lines", "send", "done"
    peer,       \* its peer
    buf,        \* its buf[:rlen]
    data,       \* the unread bytes of its bytes.Buffer
    msg,        \* the point it sends on rcv.out
    pcR,        \* reporter goroutine: "idle", "select", "load", "add", "stat", "done"
    rName,      \* the counter the reporter is working on
    rVal,       \* the value it loaded
    pcS,        \* Stop(): "idle", "wait", "returned"
    \* history
    stream,     \* per peer, the bytes of all its datagrams so far
    ndg,        \* the number of datagrams with an effect so far
    storedAt,   \* per peer, the clock when its last datagram stored a
                \* fragment, -1 when it stored none
    late,       \* per peer, TRUE once a datagram of it was read after the
                \* expiry of the fragment its previous datagram stored
    combined,   \* the buffer as built for the datagram being processed
    parsed,     \* per peer, the lines handed to points.ParseText
    forwarded,  \* per peer, the points received from rcv.out
    emitted,    \* per counter, the sum of the values received from Stat,
                \* as units * 2^32 + rest
    issued,     \* per counter, the number of increments
    nReadErrs,  \* read failures so far
    nScans,     \* purge scans so far
    lastScan,   \* the clock at the last purge scan, -1 before the first
    loadedAt    \* issued[rName] at the reporter's load, between the load
                \* and the reset; 0 elsewhere

vars ==
    << now, conn, exit, finished, counters, lines, pcI, peer, buf, data, msg,
       pcR, rName, rVal, pcS, stream, ndg, storedAt, late, combined, parsed,
       forwarded, emitted,
       issued, nReadErrs, nScans, lastScan, loadedAt >>

ingestVars == << pcI, peer, buf, data, msg >>
reportVars == << pcR, rName, rVal >>
histVars == << stream, ndg, storedAt, late, combined, parsed, forwarded,
               emitted, issued,
               nReadErrs, nScans, lastScan, loadedAt >>

\* ------------------------------------------------------- incompleteStorage

newIncompleteStorage(t) ==
    [ Records |-> << >>, NextPurge |-> t + PurgeInterval ]

\* delete(storage.Records, addr)
Delete(recs, addr) == [ q \in (DOMAIN recs) \ {addr} |-> recs[q] ]

\* purge that only moves NextPurge.
purgeKeepsExpired(st, t) ==
    [ Records |-> st.Records, NextPurge |-> t + PurgeInterval ]

\* purge with the deadline itself counted as passed.
purgeAtDeadline(st, t) ==
    [ Records |->
        [ q \in { k \in DOMAIN st.Records : st.Records[k].deadline > t }
            |-> st.Records[q] ],
      NextPurge |-> t + PurgeInterval ]

purge(st, t) ==
    [ Records |->
        [ q \in { k \in DOMAIN st.Records : ~(st.Records[k].deadline < t) }
            |-> st.Records[q] ],
      NextPurge |-> t + PurgeInterval ]

\* checkAndClear without the test of NextPurge.
checkAndClearNoLimit(st, t) ==
    IF Cardinality(DOMAIN st.Records) < MaxSize
    THEN [ st |-> st, purged |-> FALSE ]
    ELSE [ st |-> purge(st, t), purged |-> TRUE ]

\* The storage afterwards, and purged = TRUE when purge() was called.
checkAndClear(st, t) ==
    IF Cardinality(DOMAIN st.Records) < MaxSize
    THEN [ st |-> st, purged |-> FALSE ]
    ELSE IF st.NextPurge > t
         THEN [ st |-> st, purged |-> FALSE ]
         ELSE [ st |-> purge(st, t), purged |-> TRUE ]

\* storage.Records[addr] = &incompleteRecord{...}
Put(st, addr, bytes, t) ==
    [ st EXCEPT !.Records =
        [ q \in (DOMAIN st.Records) \cup {addr} |->
            IF q = addr
            THEN [ deadline |-> t + Expires, data |-> bytes ]
            ELSE st.Records[q] ] ]

store(st, addr, bytes, t) == checkAndClear(Put(st, addr, bytes, t), t)

\* pop without the test of the deadline.
popStale(st, addr, t) ==
    IF addr \in DOMAIN st.Records
    THEN [ ok   |-> TRUE,
           data |-> st.Records[addr].data,
           st   |-> [ st EXCEPT !.Records = Delete(st.Records, addr) ] ]
    ELSE [ ok |-> FALSE, data |-> << >>, st |-> st ]

\* pop keyed by the host of the peer alone: the peers of the model share
\* their host, so pop takes whichever record the store holds.
popByHost(st, addr, t) ==
    IF DOMAIN st.Records # {}
    THEN LET k == CHOOSE q \in DOMAIN st.Records : TRUE IN
         [ ok   |-> ~(st.Records[k].deadline < t),
           data |-> IF st.Records[k].deadline < t
                    THEN << >>
                    ELSE st.Records[k].data,
           st   |-> [ st EXCEPT !.Records = Delete(st.Records, k) ] ]
    ELSE [ ok |-> FALSE, data |-> << >>, st |-> st ]

\* pop that reads the record and leaves it in the store.
popPeek(st, addr, t) ==
    IF addr \in DOMAIN st.Records
    THEN [ ok   |-> ~(st.Records[addr].deadline < t),
           data |-> IF st.Records[addr].deadline < t
                    THEN << >>
                    ELSE st.Records[addr].data,
           st   |-> st ]
    ELSE [ ok |-> FALSE, data |-> << >>, st |-> st ]

\* pop that tests the deadline before the delete, and leaves a record
\* whose deadline has passed in the store.
popLeavesExpired(st, addr, t) ==
    IF addr \in DOMAIN st.Records
    THEN IF st.Records[addr].deadline < t
         THEN [ ok |-> FALSE, data |-> << >>, st |-> st ]
         ELSE [ ok   |-> TRUE,
                data |-> st.Records[addr].data,
                st   |-> [ st EXCEPT !.Records = Delete(st.Records, addr) ] ]
    ELSE [ ok |-> FALSE, data |-> << >>, st |-> st ]

\* The bytes returned (ok = FALSE for nil) and the storage afterwards.
pop(st, addr, t) ==
    IF addr \in DOMAIN st.Records
    THEN [ ok   |-> ~(st.Records[addr].deadline < t),
           data |-> IF st.Records[addr].deadline < t
                    THEN << >>
                    ELSE st.Records[addr].data,
           st   |-> [ st EXCEPT !.Records = Delete(st.Records, addr) ] ]
    ELSE [ ok |-> FALSE, data |-> << >>, st |-> st ]

\* ------------------------------------------------------------ bytes.Buffer

\* Index of the first delim in s from i on, 0 when there is none.
RECURSIVE IndexFrom(_, _, _)
IndexFrom(s, delim, i) ==
    IF i > Len(s) THEN 0
    ELSE IF s[i] = delim THEN i
    ELSE IndexFrom(s, delim, i + 1)

\* Buffer.ReadBytes(delim): the line with its delimiter, the rest, and
\* eof = TRUE when the buffer ended before a delimiter.
ReadBytes(s, delim) ==
    LET i == IndexFrom(s, delim, 1) IN
    IF i = 0
    THEN [ line |-> s, rest |-> << >>, eof |-> TRUE ]
    ELSE [ line |-> SubSeq(s, 1, i), rest |-> SubSeq(s, i + 1, Len(s)),
           eof |-> FALSE ]

\* -------------------------------------------------------- points.ParseText

\* The line without the line ends around it.
RECURSIVE Trim(_)
Trim(s) ==
    IF s = << >> THEN s
    ELSE IF s[Len(s)] = NL THEN Trim(SubSeq(s, 1, Len(s) - 1))
    ELSE IF s[1] = NL THEN Trim(SubSeq(s, 2, Len(s)))
    ELSE s

\* A record is well formed when it is not empty and holds no byte "x".
ParseText(line) ==
    LET t == Trim(line) IN
    [ err   |-> t = << >> \/ \E i \in 1..Len(t) : t[i] = "x",
      point |-> t ]

\* ---------------------------------------------------------------- counters

\* atomic.AddUint32: addition modulo 2^32, on the signed readings.
AddUint32(c, d) ==
    IF c >= 0 /\ d >= 0 /\ c > MaxInt32 - d
    THEN ((c - MaxInt32) - 1) + ((d - MaxInt32) - 1)
    ELSE IF c < 0 /\ d < 0 /\ c < ((-MaxInt32) - 1) - d
    THEN ((c + MaxInt32) + 1) + ((d + MaxInt32) + 1)
    ELSE c + d

\* The complement ^v in place of -v.
NegComplement(v) == (-v) - 1

\* -v of a uint32 v.
Neg(v) == IF v = (-MaxInt32) - 1 THEN v ELSE -v

\* float64(v) of a uint32 v, as units * 2^32 + rest.
Float64(v) ==
    IF v >= 0 THEN [ units |-> 0, rest |-> v ] ELSE [ units |-> 1, rest |-> v ]

\* atomic.AddUint32(&counter, 1)
Inc(name) ==
    /\ counters' = [ counters EXCEPT ![name] = AddUint32(@, 1) ]
    /\ issued' = [ issued EXCEPT ![name] = @ + 1 ]

\* ------------------------------------------------------------------- Init

\* The history of a receiver that has done nothing yet.
NoHistory ==
    /\ stream = [ p \in Peers |-> << >> ]
    /\ ndg = 0
    /\ storedAt = [ p \in Peers |-> -1 ]
    /\ late = [ p \in Peers |-> FALSE ]
    /\ combined = << >>
    /\ parsed = [ p \in Peers |-> << >> ]
    /\ forwarded = [ p \in Peers |-> << >> ]
    /\ emitted = [ c \in CounterNames |-> [ units |-> 0, rest |-> 0 ] ]
    /\ issued = [ c \in CounterNames |-> 0 ]
    /\ nReadErrs = 0
    /\ nScans = 0
    /\ lastScan = -1
    /\ loadedAt = 0

\* The receiver NewUDP returns.
Init ==
    /\ now = 0
    /\ conn = "nil"
    /\ exit = FALSE
    /\ finished = FALSE
    /\ counters = [ c \in CounterNames |-> 0 ]
    /\ lines = newIncompleteStorage(0)
    /\ pcI = "idle"
    /\ peer = "p1"
    /\ buf = << >>
    /\ data = << >>
    /\ msg = << >>
    /\ pcR = "idle"
    /\ rName = "metricsReceived"
    /\ rVal = 0
    /\ pcS = "idle"
    /\ NoHistory

\* ------------------------------------------------------------------ clock

Tick ==
    /\ now < MaxTime
    /\ now' = now + 1
    /\ UNCHANGED << conn, exit, finished, counters, lines, ingestVars,
                    reportVars, pcS, histVars >>

\* ----------------------------------------------------------------- Listen

\* net.ListenUDP fails: Listen returns the error and starts nothing.
ListenErr ==
    /\ conn = "nil"
    /\ pcI = "idle"
    /\ UNCHANGED vars

\* net.ListenUDP succeeds: both goroutines start; the ingestion goroutine
\* creates its storage.
Listen ==
    /\ conn = "nil"
    /\ pcI = "idle"
    /\ conn' = "open"
    /\ pcR' = "select"
    /\ pcI' = "read"
    /\ lines' = newIncompleteStorage(now)
    /\ UNCHANGED << now, exit, finished, counters, peer, buf, data, msg,
                    rName, rVal, pcS, histVars >>

\* ---------------------------------------------------- ingestion goroutine

\* The datagrams the model lets the socket deliver: MaxDgrams of them, and
\* beyond that the empty datagram of a peer that has no pending fragment.
CanSend(p, d) ==
    \/ ndg < MaxDgrams
    \/ d = << >> /\ p \notin DOMAIN lines.Records

\* The buffer without the Write of the datagram after the fragment.
NewBufferNoWrite(prev, d) == IF prev.ok THEN prev.data ELSE d

\* The buffer of the inner loop: bytes.NewBuffer(prev) and Write, or
\* bytes.NewBuffer(buf[:rlen]).
NewBuffer(prev, d) == IF prev.ok THEN prev.data \o d ELSE d

\* ReadFromUDP returns datagram d of peer p; pop; the buffer is built.
Receive(p, d) ==
    /\ pcI = "read"
    /\ conn = "open"
    /\ CanSend(p, d)
    /\ LET prev == pop(lines, p, now) IN
        /\ lines' = prev.st
        /\ data' = NewBuffer(prev, d)
        /\ combined' = NewBuffer(prev, d)
    /\ peer' = p
    /\ buf' = d
    /\ pcI' = "lines"
    /\ stream' = [ stream EXCEPT ![p] = @ \o d ]
    /\ ndg' = IF ndg < MaxDgrams THEN ndg + 1 ELSE ndg
    /\ late' = [ late EXCEPT ![p] =
                    @ \/ (storedAt[p] >= 0 /\ now > storedAt[p] + Expires) ]
    /\ storedAt' = [ storedAt EXCEPT ![p] = -1 ]
    /\ UNCHANGED << now, conn, exit, finished, counters, msg, reportVars, pcS,
                    parsed, forwarded, emitted, issued, nReadErrs, nScans,
                    lastScan, loadedAt >>

\* ReadErr with a break in place of the continue: the loop ends on any
\* read error.
ReadErrBreaks ==
    /\ pcI = "read"
    /\ conn = "open"
    /\ nReadErrs < MaxReadErrs
    /\ Inc("errors")
    /\ nReadErrs' = nReadErrs + 1
    /\ pcI' = "done"
    /\ finished' = TRUE
    /\ UNCHANGED << now, conn, exit, lines, peer, buf, data, msg, reportVars,
                    pcS, stream, ndg, storedAt, late, combined, parsed,
                    forwarded, emitted, nScans, lastScan,
                    loadedAt >>

\* ReadFromUDP fails with an error other than the closed connection.
ReadErr ==
    /\ pcI = "read"
    /\ conn = "open"
    /\ nReadErrs < MaxReadErrs
    /\ Inc("errors")
    /\ nReadErrs' = nReadErrs + 1
    /\ UNCHANGED << now, conn, exit, finished, lines, ingestVars, reportVars,
                    pcS, stream, ndg, storedAt, late, combined, parsed,
                    forwarded, emitted, nScans, lastScan,
                    loadedAt >>

\* ReadFromUDP fails with "use of closed network connection": the loop
\* ends and rcv.finished is closed.
ReadClosed ==
    /\ pcI = "read"
    /\ conn = "closed"
    /\ pcI' = "done"
    /\ finished' = TRUE
    /\ UNCHANGED << now, conn, exit, counters, lines, peer, buf, data, msg,
                    reportVars, pcS, histVars >>

\* EndOfBuffer with the length of the datagram tested in place of the
\* length of the line.
EndOfBufferTestsDatagram(line) ==
    /\ IF Len(buf) > 0
       THEN LET r == store(lines, peer, line, now) IN
            /\ lines' = r.st
            /\ Inc("incompleteReceived")
            /\ storedAt' = [ storedAt EXCEPT ![peer] = now ]
            /\ IF r.purged
               THEN nScans' = nScans + 1 /\ lastScan' = now
               ELSE UNCHANGED << nScans, lastScan >>
       ELSE UNCHANGED << lines, counters, issued, storedAt, nScans, lastScan >>
    /\ pcI' = "read"
    /\ peer' = "p1"
    /\ buf' = << >>
    /\ data' = << >>
    /\ combined' = << >>
    /\ UNCHANGED << msg, parsed >>

\* io.EOF: the bytes left are stored as an incomplete line, and the
\* outer loop goes on to its next read.
EndOfBuffer(line) ==
    /\ IF Len(line) > 0
       THEN LET r == store(lines, peer, line, now) IN
            /\ lines' = r.st
            /\ Inc("incompleteReceived")
            /\ storedAt' = [ storedAt EXCEPT ![peer] = now ]
            /\ IF r.purged
               THEN nScans' = nScans + 1 /\ lastScan' = now
               ELSE UNCHANGED << nScans, lastScan >>
       ELSE UNCHANGED << lines, counters, issued, storedAt, nScans, lastScan >>
    /\ pcI' = "read"
    /\ peer' = "p1"
    /\ buf' = << >>
    /\ data' = << >>
    /\ combined' = << >>
    /\ UNCHANGED << msg, parsed >>

\* CompleteLine that gives up the rest of the buffer on a line that does
\* not parse.
CompleteLineStopsOnError(line, rest) ==
    /\ IF Len(line) > 0
       THEN /\ parsed' = [ parsed EXCEPT ![peer] = Append(@, line) ]
            /\ IF ParseText(line).err
               THEN /\ Inc("errors")
                    /\ data' = << >>
                    /\ pcI' = "lines"
                    /\ UNCHANGED msg
               ELSE /\ Inc("metricsReceived")
                    /\ data' = rest
                    /\ msg' = ParseText(line).point
                    /\ pcI' = "send"
       ELSE /\ data' = rest
            /\ UNCHANGED << parsed, counters, issued, msg, pcI >>
    /\ UNCHANGED << lines, peer, buf, storedAt, combined, nScans, lastScan >>

\* A line that ends with the delimiter.
CompleteLine(line, rest) ==
    /\ data' = rest
    /\ IF Len(line) > 0
       THEN /\ parsed' = [ parsed EXCEPT ![peer] = Append(@, line) ]
            /\ IF ParseText(line).err
               THEN /\ Inc("errors")
                    /\ pcI' = "lines"
                    /\ UNCHANGED msg
               ELSE /\ Inc("metricsReceived")
                    /\ msg' = ParseText(line).point
                    /\ pcI' = "send"
       ELSE UNCHANGED << parsed, counters, issued, msg, pcI >>
    /\ UNCHANGED << lines, peer, buf, storedAt, combined, nScans, lastScan >>

\* One pass of the inner loop: data.ReadBytes('\n') and what follows it,
\* up to the send on rcv.out.
ReadLine ==
    /\ pcI = "lines"
    /\ LET r == ReadBytes(data, NL) IN
        IF r.eof THEN EndOfBuffer(r.line) ELSE CompleteLine(r.line, r.rest)
    /\ UNCHANGED << now, conn, exit, finished, reportVars, pcS, stream, ndg,
                    late, forwarded, emitted, nReadErrs, loadedAt >>

\* Send as a select with rcv.exit: once rcv.exit is closed the point may be
\* given up.
SendOrExit ==
    /\ pcI = "send"
    /\ \/ forwarded' = [ forwarded EXCEPT ![peer] = Append(@, msg) ]
       \/ exit /\ forwarded' = forwarded
    /\ msg' = << >>
    /\ pcI' = "lines"
    /\ UNCHANGED << now, conn, exit, finished, counters, lines, peer, buf,
                    data, reportVars, pcS, stream, ndg, storedAt, late,
                    combined, parsed, emitted, issued, nReadErrs, nScans,
                    lastScan, loadedAt >>

\* rcv.out <- msg: the consumer receives the point.
Send ==
    /\ pcI = "send"
    /\ forwarded' = [ forwarded EXCEPT ![peer] = Append(@, msg) ]
    /\ msg' = << >>
    /\ pcI' = "lines"
    /\ UNCHANGED << now, conn, exit, finished, counters, lines, peer, buf,
                    data, reportVars, pcS, stream, ndg, storedAt, late,
                    combined, parsed, emitted, issued, nReadErrs, nScans,
                    lastScan, loadedAt >>

\* ----------------------------------------------------- reporter goroutine

\* The order of the three counters in the reporter.
NextCounter(name) ==
    IF name = "metricsReceived" THEN "incompleteReceived" ELSE "errors"

\* case <-ticker.C
ReportTick ==
    /\ pcR = "select"
    /\ pcR' = "load"
    /\ rName' = "metricsReceived"
    /\ UNCHANGED << now, conn, exit, finished, counters, lines, ingestVars,
                    rVal, pcS, histVars >>

\* atomic.LoadUint32
ReportLoad ==
    /\ pcR = "load"
    /\ rVal' = counters[rName]
    /\ pcR' = "add"
    /\ loadedAt' = issued[rName]
    /\ UNCHANGED << now, conn, exit, finished, counters, lines, ingestVars,
                    rName, pcS, stream, ndg, storedAt, late, combined, parsed,
                    forwarded, emitted, issued, nReadErrs, nScans, lastScan >>

\* The reset as a store of zero.
ResetStoresZero(c, v) == 0

\* The counter after atomic.AddUint32(&counter, -v).
Reset(c, v) == AddUint32(c, Neg(v))

ReportAdd ==
    /\ pcR = "add"
    /\ counters' = [ counters EXCEPT ![rName] = Reset(@, rVal) ]
    /\ pcR' = "stat"
    /\ loadedAt' = 0
    /\ UNCHANGED << now, conn, exit, finished, lines, ingestVars, rName, rVal,
                    pcS, stream, ndg, storedAt, late, combined, parsed,
                    forwarded, emitted, issued, nReadErrs, nScans, lastScan >>

\* Stat with a send that gives up when the consumer is not receiving.
ReportStatDrops ==
    /\ pcR = "stat"
    /\ rVal' = 0
    /\ IF rName = "errors"
       THEN pcR' = "select" /\ rName' = "metricsReceived"
       ELSE pcR' = "load" /\ rName' = NextCounter(rName)
    /\ UNCHANGED << now, conn, exit, finished, counters, lines, ingestVars,
                    pcS, histVars >>

\* rcv.Stat: the consumer receives the point from rcv.out.
ReportStat ==
    /\ pcR = "stat"
    /\ emitted' = [ emitted EXCEPT ![rName] =
                        [ units |-> @.units + Float64(rVal).units,
                          rest  |-> @.rest + Float64(rVal).rest ] ]
    /\ rVal' = 0
    /\ IF rName = "errors"
       THEN pcR' = "select" /\ rName' = "metricsReceived"
       ELSE pcR' = "load" /\ rName' = NextCounter(rName)
    /\ UNCHANGED << now, conn, exit, finished, counters, lines, ingestVars,
                    pcS, stream, ndg, storedAt, late, combined, parsed,
                    forwarded, issued, nReadErrs, nScans, lastScan,
                    loadedAt >>

\* The exit branch with a break out of the select in place of the return.
ReportExitBreaks ==
    /\ pcR = "select"
    /\ exit
    /\ conn' = "closed"
    /\ UNCHANGED << now, exit, finished, counters, lines, ingestVars,
                    reportVars, pcS, histVars >>

\* ReportExit without rcv.conn.Close().
ReportExitKeepsConn ==
    /\ pcR = "select"
    /\ exit
    /\ pcR' = "done"
    /\ UNCHANGED << now, conn, exit, finished, counters, lines, ingestVars,
                    rName, rVal, pcS, histVars >>

\* case <-rcv.exit
ReportExit ==
    /\ pcR = "select"
    /\ exit
    /\ conn' = "closed"
    /\ pcR' = "done"
    /\ UNCHANGED << now, exit, finished, counters, lines, ingestVars, rName,
                    rVal, pcS, histVars >>

\* ------------------------------------------------------------------- Stop

\* close(rcv.exit)
Stop ==
    /\ pcS = "idle"
    /\ exit' = TRUE
    /\ pcS' = "wait"
    /\ UNCHANGED << now, conn, finished, counters, lines, ingestVars,
                    reportVars, histVars >>

\* Stop without the wait for rcv.finished.
StopReturnNoWait ==
    /\ pcS = "wait"
    /\ pcS' = "returned"
    /\ UNCHANGED << now, conn, exit, finished, counters, lines, ingestVars,
                    reportVars, histVars >>

\* Stop that returns at once on a receiver that is not listening.
StopReturnUnstarted ==
    /\ pcS = "wait"
    /\ finished \/ conn = "nil"
    /\ pcS' = "returned"
    /\ UNCHANGED << now, conn, exit, finished, counters, lines, ingestVars,
                    reportVars, histVars >>

\* <-rcv.finished
StopReturn ==
    /\ pcS = "wait"
    /\ finished
    /\ pcS' = "returned"
    /\ UNCHANGED << now, conn, exit, finished, counters, lines, ingestVars,
                    reportVars, histVars >>

\* --------------------------------------------------------- specifications

\* The receiver from NewUDP on: Listen, both goroutines, Stop, and the
\* consumer of rcv.out, with one peer and one datagram for each counter, and
\* one datagram of two lines of which the first does not parse.
\* The clock stands still here; expiry and purge are those of SpecStore.
\* A send on rcv.out and the consumer's receive are one step (Send,
\* ReportStat): a goroutine at "send" or "stat" waits for the consumer.
RunPeers == {"p1"}
RunDgrams == { <<"a", NL>>, <<"x", NL>>, <<"a">>, <<"x", NL, "a", NL>> }

Next ==
    \/ ListenErr
    \/ Listen
    \/ \E p \in RunPeers, d \in RunDgrams : Receive(p, d)
    \/ ReadErr
    \/ ReadClosed
    \/ ReadLine
    \/ Send
    \/ ReportTick
    \/ ReportLoad
    \/ ReportAdd
    \/ ReportStat
    \/ ReportExit
    \/ Stop
    \/ StopReturn

Spec == Init /\ [][Next]_vars

\* The same with one datagram that ends in a send on rcv.out and one that
\* ends in a store, and with both goroutines and Stop scheduled, the
\* consumer of rcv.out receiving what is sent to it, and the reporter's
\* select, which picks at random among its ready cases, taking the case of
\* rcv.exit at some time once rcv.exit is closed.
StopDgrams == { <<"a", NL>>, <<"a">> }

NextStop ==
    \/ ListenErr
    \/ Listen
    \/ \E p \in RunPeers, d \in StopDgrams : Receive(p, d)
    \/ ReadErr
    \/ ReadClosed
    \/ ReadLine
    \/ Send
    \/ ReportTick
    \/ ReportLoad
    \/ ReportAdd
    \/ ReportStat
    \/ ReportExit
    \/ Stop
    \/ StopReturn

SpecStop ==
    /\ Init
    /\ [][NextStop]_vars
    /\ WF_vars(ReadClosed)
    /\ WF_vars(ReadLine)
    /\ WF_vars(Send)
    /\ WF_vars(ReportLoad)
    /\ WF_vars(ReportAdd)
    /\ WF_vars(ReportStat)
    /\ SF_vars(ReportExit)
    /\ WF_vars(StopReturn)

\* The ingestion goroutine of a listening receiver, with the clock: every
\* peer, every datagram.
InitStore ==
    /\ now = 0
    /\ conn = "open"
    /\ exit = FALSE
    /\ finished = FALSE
    /\ counters = [ c \in CounterNames |-> 0 ]
    /\ lines = newIncompleteStorage(0)
    /\ pcI = "read"
    /\ peer = "p1"
    /\ buf = << >>
    /\ data = << >>
    /\ msg = << >>
    /\ pcR = "select"
    /\ rName = "metricsReceived"
    /\ rVal = 0
    /\ pcS = "idle"
    /\ NoHistory

NextStore ==
    \/ \E p \in Peers, d \in Dgrams : Receive(p, d)
    \/ ReadLine
    \/ Send
    \/ Tick

SpecStore == InitStore /\ [][NextStore]_vars

\* The same with the clock advancing, the goroutine scheduled, and the
\* consumer of rcv.out receiving.
SpecStoreFair ==
    /\ SpecStore
    /\ WF_vars(Tick)
    /\ WF_vars(ReadLine)
    /\ WF_vars(Send)

\* ----------------------------------------------------------------- claims

IsPrefix(a, b) == Len(a) <= Len(b) /\ SubSeq(b, 1, Len(a)) = a

\* The lines the inner loop reads from buffer s before it reaches the end.
RECURSIVE SplitLines(_)
SplitLines(s) ==
    LET r == ReadBytes(s, NL) IN
    IF r.eof THEN << >> ELSE << r.line >> \o SplitLines(r.rest)

\* The bytes of s after its last delimiter.
RECURSIVE Leftover(_)
Leftover(s) ==
    IF s = << >> THEN << >>
    ELSE IF s[Len(s)] = NL THEN << >>
    ELSE Append(Leftover(SubSeq(s, 1, Len(s) - 1)), s[Len(s)])

\* The points of the lines that parse, in order.
RECURSIVE Points(_)
Points(ls) ==
    IF ls = << >> THEN << >>
    ELSE IF ParseText(Head(ls)).err THEN Points(Tail(ls))
    ELSE << ParseText(Head(ls)).point >> \o Points(Tail(ls))

\* C1. Reassembly: for a peer none of whose datagrams was read after the
\* expiry of the fragment its previous datagram stored, the lines handed to
\* the parser and the points forwarded are, in order, those of its unsplit
\* stream processed as one datagram: a prefix of them while a datagram is
\* being processed, all of them when the loop is back at its read.
C1_Reassembly ==
    \A p \in Peers :
        ~late[p] =>
            LET want == SplitLines(stream[p]) IN
            /\ IsPrefix(parsed[p], want)
            /\ IsPrefix(forwarded[p], Points(parsed[p]))
            /\ (pcI \in {"lines", "send"} /\ peer = p)
                   => parsed[p] \o SplitLines(data) = want
            /\ pcI = "read"
                   => parsed[p] = want /\ forwarded[p] = Points(want)

\* A line split over datagrams of p1, with datagrams of p2 in the stream,
\* reassembled and forwarded.
C1_Witness ==
    /\ pcI = "read"
    /\ ~late["p1"]
    /\ stream["p1"] = <<"a", "a", NL>>
    /\ stream["p2"] # << >>
    /\ forwarded["p1"] = << <<"a", "a">> >>

\* C2. Expiry: when a datagram of p is read and p's previous datagram stored
\* a fragment at time T, then after T + Expires pop returns nil (the buffer
\* is the datagram alone), and up to T + Expires it returns the stored bytes
\* (the buffer is the fragment followed by the datagram); either way the
\* store holds no entry for p afterwards.
C2_Expiry ==
    [][ \A p \in Peers :
          (pcI = "read" /\ pcI' = "lines" /\ peer' = p /\ storedAt[p] >= 0) =>
              /\ now > storedAt[p] + Expires => data' = buf'
              /\ ~(now > storedAt[p] + Expires) =>
                    /\ p \in DOMAIN lines.Records
                    /\ data' = lines.Records[p].data \o buf'
              /\ p \notin DOMAIN lines'.Records
      ]_vars

\* A datagram read after the expiry of the fragment in the store, which
\* pop has dropped.
C2_Witness ==
    /\ pcI = "lines"
    /\ ndg = 2
    /\ late[peer]
    /\ buf = <<"a", NL>>
    /\ data = buf
    /\ stream[peer] = <<"a", "a", NL>>

\* C4. Purge boundedness: a purge scan runs only when the clock has reached
\* NextPurge, sets NextPurge one second after the clock, and comes at least
\* one second after the scan before it.
C4_PurgeBounded ==
    [][ nScans' # nScans =>
          /\ now >= lines.NextPurge
          /\ lines'.NextPurge = now + PurgeInterval
          /\ lastScan >= 0 => now >= lastScan + PurgeInterval
      ]_vars

\* Two scans have run.
C4_Witness == nScans >= 2 /\ Cardinality(DOMAIN lines.Records) >= MaxSize

\* C6. Empty lines: reading a line that is only the delimiter hands nothing
\* to the parser, forwards nothing and changes no counter.
C6_EmptyLineSkipped ==
    [][ (pcI = "lines" /\ ReadBytes(data, NL).line = <<NL>>) =>
          /\ parsed' = parsed
          /\ forwarded' = forwarded
          /\ issued' = issued
          /\ counters' = counters
      ]_vars

\* C9. Incomplete tails: the step that ends the processing of a datagram
\* counts one incomplete line and stores the bytes after the last delimiter
\* of the buffer (fragment and datagram) under the peer exactly when there
\* are such bytes, and otherwise leaves the store and the counter alone; no
\* other step counts an incomplete line or writes an entry of the store.
C9_IncompleteTail ==
    [][ IF pcI = "lines" /\ pcI' = "read"
        THEN IF Leftover(combined) # << >>
             THEN /\ issued'["incompleteReceived"] =
                        issued["incompleteReceived"] + 1
                  /\ counters'["incompleteReceived"] =
                        counters["incompleteReceived"] + 1
                  /\ peer \in DOMAIN lines'.Records
                  /\ lines'.Records[peer].data = Leftover(combined)
             ELSE /\ issued' = issued
                  /\ counters' = counters
                  /\ lines' = lines
        ELSE /\ issued'["incompleteReceived"] = issued["incompleteReceived"]
             /\ \A q \in DOMAIN lines'.Records :
                    /\ q \in DOMAIN lines.Records
                    /\ lines'.Records[q] = lines.Records[q]
      ]_vars

\* "a\na" then "a\n" of one peer: one incomplete line counted, two records
\* received, two points forwarded.
C9_Witness ==
    /\ pcI = "read"
    /\ stream["p1"] = <<"a", NL, "a", "a", NL>>
    /\ stream["p2"] = << >>
    /\ ndg = 2
    /\ issued["incompleteReceived"] = 1
    /\ issued["metricsReceived"] = 2
    /\ forwarded["p1"] = << <<"a">>, <<"a", "a">> >>

\* The fragment of p is in the store and its deadline has passed.
Expired(p) ==
    /\ p \in DOMAIN lines.Records
    /\ lines.Records[p].deadline < now

\* C3 as claimed. As long as the ingestion loop keeps processing datagrams,
\* every fragment in the store is eventually removed from it.  (Stated of
\* the fragments whose deadline has passed: the others are still awaited.)
C3_EventuallyRemoved ==
    ([]<>(pcI = "lines")) =>
        \A p \in Peers : [](Expired(p) => <>(p \notin DOMAIN lines.Records))

\* C3 as amended. A fragment leaves the store only through pop at the read
\* of the next datagram of its peer, or through a purge scan after its
\* deadline has passed; a scan runs only inside store, only with at least
\* MaxSize entries and the clock at or past NextPurge, and then leaves no
\* entry whose deadline has passed; every other step keeps every fragment,
\* expired or not.
C3_RemovedByPopOrPurge ==
    [][ /\ \A p \in DOMAIN lines.Records :
              p \notin DOMAIN lines'.Records =>
                  \/ pcI = "read" /\ pcI' = "lines" /\ peer' = p
                  \/ nScans' # nScans /\ lines.Records[p].deadline < now
        /\ nScans' # nScans =>
              /\ pcI = "lines" /\ pcI' = "read"
              /\ Cardinality((DOMAIN lines.Records) \cup {peer}) >= MaxSize
              /\ now >= lines.NextPurge
              /\ \A p \in Peers : ~Expired(p)'
        /\ (pcI = "lines" /\ pcI' = "read" /\ lines' # lines
                /\ Cardinality(DOMAIN lines'.Records) >= MaxSize
                /\ now >= lines'.NextPurge)
              => nScans' # nScans
      ]_vars

\* A purge scan has removed the expired fragment of p1, which never sent
\* again.
C3_Witness ==
    /\ nScans >= 1
    /\ storedAt["p1"] >= 0
    /\ now > storedAt["p1"] + Expires
    /\ "p1" \notin DOMAIN lines.Records
    /\ "p2" \in DOMAIN lines.Records

\* The value the reporter has subtracted from counter c and not yet sent.
InFlight(c) == IF pcR = "stat" /\ rName = c THEN rVal ELSE 0

\* C5. Counter accuracy: for each counter, the values the consumer received
\* from the reporter, the value the reporter has subtracted and is sending,
\* and the counter itself add up to the number of increments; so whenever
\* the reporter holds no value it has still to send, the values emitted plus
\* the counter equal the number of increments.
C5_CounterAccuracy ==
    \A c \in CounterNames :
        /\ emitted[c].units = 0
        /\ emitted[c].rest + InFlight(c) + counters[c] = issued[c]
        /\ ~(pcR = "stat" /\ rName = c)
               => emitted[c].rest + counters[c] = issued[c]

\* An increment has landed between the reporter's load and its reset.
C5_Witness ==
    /\ pcR = "add"
    /\ rVal >= 1
    /\ counters[rName] > rVal

\* C7. Shutdown order: Stop has returned only if rcv.finished is closed,
\* which is closed only by the ingestion loop when it ends, which ends only
\* on a closed socket, which is closed only after rcv.exit is closed, which
\* only Stop closes.
C7_ShutdownOrder ==
    /\ pcS = "returned" => finished
    /\ finished => pcI = "done"
    /\ pcI = "done" => conn = "closed"
    /\ conn = "closed" => exit /\ pcR = "done"
    /\ exit <=> pcS # "idle"

\* Stop has returned.
C7_Witness ==
    /\ pcS = "returned"
    /\ finished
    /\ conn = "closed"
    /\ forwarded["p1"] # << >>

\* C8. After Stop has returned the socket is closed, both goroutines have
\* ended, and no step reads a datagram, sends a point of the ingestion loop
\* or sends a point of the reporter.
C8_DrainsCleanly ==
    [][ pcS = "returned" =>
          /\ conn = "closed" /\ conn' = "closed"
          /\ pcI = "done" /\ pcI' = "done"
          /\ pcR' = pcR
          /\ stream' = stream
          /\ parsed' = parsed
          /\ forwarded' = forwarded
          /\ emitted' = emitted
      ]_vars

\* Stop has returned after points and statistics were sent.
C8_Witness ==
    /\ pcS = "returned"
    /\ forwarded["p1"] # << >>
    /\ emitted["metricsReceived"].rest >= 1

\* C10 as claimed. The reporter waits only in its select, for the tick or
\* for rcv.exit: it is never at the send of Stat, which waits for the
\* consumer of rcv.out.
C10_WaitsOnlyInSelect == pcR # "stat"

\* C10 as amended. The reporter leaves its select only by the tick or, with
\* rcv.exit closed, by the exit branch; it leaves the send of Stat only by
\* the consumer receiving the value; its load and its reset involve neither.
C10_ReporterWaits ==
    [][ pcR' # pcR =>
          /\ pcR = "select" =>
                \/ pcR' = "load"
                \/ exit /\ pcR' = "done" /\ conn' = "closed"
          /\ pcR = "stat" =>
                /\ emitted'[rName].rest = emitted[rName].rest + rVal
                /\ pcR' \in {"load", "select"}
          /\ pcR \in {"load", "add"} =>
                /\ emitted' = emitted
                /\ pcR' \in {"add", "stat"}
      ]_vars

\* The reporter is at the send of Stat, with a value to send, while Stop
\* waits for rcv.finished.
C10_Witness ==
    /\ pcR = "stat"
    /\ rVal >= 1
    /\ pcS = "wait"

\* C11. A read that fails on the closed connection ends the loop and leaves
\* the counters as they are; any other failed read adds exactly one to
\* errors, leaves the store and the other counters alone, forwards nothing
\* and goes back to reading. The loop ends only with the connection closed.
C11_ReadErrors ==
    [][ /\ nReadErrs' # nReadErrs =>
              /\ nReadErrs' = nReadErrs + 1
              /\ counters' = [ counters EXCEPT
                                 !["errors"] = AddUint32(@, 1) ]
              /\ issued' = [ issued EXCEPT !["errors"] = @ + 1 ]
              /\ lines' = lines
              /\ forwarded' = forwarded
              /\ parsed' = parsed
              /\ pcI = "read" /\ pcI' = "read"
              /\ conn' = "open"
              /\ finished' = finished
        /\ (pcI # "done" /\ pcI' = "done") =>
              /\ pcI = "read"
              /\ conn = "closed"
              /\ counters' = counters
              /\ issued' = issued
              /\ nReadErrs' = nReadErrs
              /\ finished'
      ]_vars

\* A read failed with the connection open, the loop went on to read a
\* datagram, and later ended on the closed connection.
C11_Witness ==
    /\ nReadErrs = 1
    /\ ndg >= 1
    /\ pcI = "done"
    /\ conn = "closed"
    /\ issued["errors"] >= 1

\* C12. Every complete line that is not empty has exactly one of two
\* outcomes: it parses, metricsReceived grows by one and exactly one point
\* is sent on rcv.out; or it does not parse, errors grows by one and nothing
\* is sent. After a line that does not parse the loop goes on with the rest
\* of the buffer; the line is neither read again nor stored.
C12_LineOutcome ==
    [][ /\ (pcI = "lines" /\ data' # data /\ ~ReadBytes(data, NL).eof
                /\ Trim(ReadBytes(data, NL).line) # << >>) =>
              LET r == ReadBytes(data, NL) IN
              /\ parsed' = [ parsed EXCEPT ![peer] = Append(@, r.line) ]
              /\ data' = r.rest
              /\ lines' = lines
              /\ forwarded' = forwarded
              /\ peer' = peer
              /\ IF ParseText(r.line).err
                 THEN /\ issued' = [ issued EXCEPT !["errors"] = @ + 1 ]
                      /\ pcI' = "lines"
                      /\ msg' = msg
                 ELSE /\ issued' =
                           [ issued EXCEPT !["metricsReceived"] = @ + 1 ]
                      /\ pcI' = "send"
                      /\ msg' = ParseText(r.line).point
        /\ forwarded' # forwarded =>
              /\ pcI = "send"
              /\ forwarded' = [ forwarded EXCEPT ![peer] = Append(@, msg) ]
              /\ issued' = issued
              /\ parsed' = parsed
              /\ pcI' = "lines"
        /\ (pcI = "send" /\ pcI' # "send") => forwarded' # forwarded
      ]_vars

\* The first line of a datagram did not parse and was counted; the second
\* line of the same datagram was parsed and its point was sent.
C12_Witness ==
    /\ buf = <<"x", NL, "a", NL>>
    /\ parsed[peer] = << <<"x", NL>>, <<"a", NL>> >>
    /\ forwarded[peer] = << <<"a">> >>
    /\ issued["errors"] = 1
    /\ issued["metricsReceived"] = 1
    /\ lines.Records = << >>

\* C13. checkAndClear, called by store on the records with the new fragment
\* in them: with fewer than MaxSize records, or with the clock before
\* NextPurge, it leaves the records and NextPurge as they are; otherwise no
\* record whose deadline has passed remains, every other record is kept as
\* it was, and NextPurge is one second after the clock.
C13_PurgeContract ==
    [][ (pcI = "lines" /\ pcI' = "read" /\ data # << >>) =>
          LET st0 == Put(lines, peer, data, now)
              recs == st0.Records
          IN
          IF Cardinality(DOMAIN recs) < MaxSize \/ now < st0.NextPurge
          THEN /\ lines' = st0
               /\ nScans' = nScans
          ELSE /\ nScans' = nScans + 1
               /\ DOMAIN lines'.Records \subseteq DOMAIN recs
               /\ \A q \in DOMAIN recs :
                     IF recs[q].deadline < now
                     THEN q \notin DOMAIN lines'.Records
                     ELSE /\ q \in DOMAIN lines'.Records
                          /\ lines'.Records[q] = recs[q]
               /\ lines'.NextPurge = now + PurgeInterval
      ]_vars

\* A scan has just run: it removed the fragment of p1, whose deadline had
\* passed, and kept the fragment of p2 that the same store call put in.
C13_Witness ==
    /\ pcI = "read"
    /\ nScans >= 1
    /\ lastScan = now
    /\ lines.NextPurge = now + PurgeInterval
    /\ storedAt["p1"] >= 0
    /\ storedAt["p1"] + Expires < now
    /\ "p1" \notin DOMAIN lines.Records
    /\ storedAt["p2"] = now
    /\ "p2" \in DOMAIN lines.Records

\* C14. After pop of an identity, whether it returned bytes, found a record
\* past its deadline or found none, the store holds no record of that
\* identity, a second pop of it returns nothing, and the records of the
\* other identities and NextPurge are as they were.
C14_PopRemoves ==
    [][ (pcI = "read" /\ pcI' = "lines") =>
          LET p == peer' IN
          /\ p \notin DOMAIN lines'.Records
          /\ ~pop(lines', p, now).ok
          /\ pop(lines', p, now).st = lines'
          /\ \A q \in Peers \ {p} :
                /\ q \in DOMAIN lines'.Records <=> q \in DOMAIN lines.Records
                /\ q \in DOMAIN lines.Records =>
                      lines'.Records[q] = lines.Records[q]
          /\ lines'.NextPurge = lines.NextPurge
      ]_vars

\* pop has just found the fragment of p1 past its deadline: it is gone from
\* the store, and the fragment of p2 is still there.
C14_Witness ==
    /\ pcI = "lines"
    /\ peer = "p1"
    /\ late["p1"]
    /\ storedAt["p1"] = -1
    /\ combined = buf
    /\ "p1" \notin DOMAIN lines.Records
    /\ "p2" \in DOMAIN lines.Records

\* C15. The send on rcv.out cannot be interrupted by Stop: while the
\* ingestion goroutine is at the send, rcv.finished is not closed and Stop
\* does not return, and the goroutine leaves the send only by the consumer
\* receiving the point; the point is never dropped. A consumer that never
\* receives therefore keeps Stop waiting for ever.
C15_SendBlocksStop ==
    [][ pcI = "send" =>
          /\ ~finished /\ ~finished'
          /\ pcS # "returned" /\ pcS' # "returned"
          /\ IF pcI' = "send"
             THEN msg' = msg /\ forwarded' = forwarded
             ELSE forwarded' = [ forwarded EXCEPT ![peer] = Append(@, msg) ]
      ]_vars

\* Stop waits, the reporter has closed the connection and returned, and the
\* ingestion goroutine is still at the send of a point nobody has received.
C15_Witness ==
    /\ pcI = "send"
    /\ msg = <<"a">>
    /\ pcS = "wait"
    /\ exit
    /\ conn = "closed"
    /\ pcR = "done"
    /\ forwarded[peer] = << >>

\* C16. With Listen successful, the goroutines scheduled and the consumer
\* receiving every pending send, a call of Stop leads to the reporter
\* having taken its exit case and closed the connection, the ingestion loop
\* having ended and closed rcv.finished, and Stop having returned.
C16_StopReturns ==
    (pcS = "wait" /\ conn # "nil") ~>
        /\ pcS = "returned"
        /\ pcR = "done"
        /\ conn = "closed"
        /\ pcI = "done"
        /\ finished

\* Stop has returned after the loop had read a datagram, sent its point and
\* the reporter had reported a counter.
C16_Witness ==
    /\ pcS = "returned"
    /\ pcR = "done"
    /\ pcI = "done"
    /\ forwarded["p1"] # << >>
    /\ emitted["metricsReceived"].rest >= 1

\* C17. Per-sender isolation: the record of a peer changes only in the
\* steps of a datagram of that peer (its pop, the store of its tail), or by
\* a purge scan that removes it after its deadline has passed; the buffer
\* built for a datagram holds the datagram and, before it, at most the
\* peer's own fragment.
C17_Isolation ==
    [][ /\ \A a \in Peers :
              LET had == a \in DOMAIN lines.Records
                  has == a \in DOMAIN lines'.Records
              IN
              (had # has \/ (had /\ has /\
                                lines'.Records[a] # lines.Records[a])) =>
                  \/ pcI = "read" /\ peer' = a
                  \/ pcI = "lines" /\ peer = a
                  \/ /\ had /\ ~has
                     /\ lines.Records[a].deadline < now
                     /\ nScans' = nScans + 1
        /\ (pcI = "read" /\ pcI' = "lines") =>
              data' = IF /\ peer' \in DOMAIN lines.Records
                         /\ ~(lines.Records[peer'].deadline < now)
                      THEN lines.Records[peer'].data \o buf'
                      ELSE buf'
      ]_vars

\* The fragment of p1 was stored, then a datagram of p2 was processed and
\* its tail stored, and the record of p1 is as it was stored.
C17_Witness ==
    /\ pcI = "read"
    /\ "p1" \in DOMAIN lines.Records
    /\ "p2" \in DOMAIN lines.Records
    /\ lines.Records["p1"].deadline < lines.Records["p2"].deadline
    /\ lines.Records["p1"].deadline = storedAt["p1"] + Expires
    /\ lines.Records["p1"].data = <<"a">>
    /\ parsed["p2"] # << >>

\* C18. No overwrite: from the pop of a datagram's peer to the end of the
\* datagram's processing, where the tail is stored, the store holds no
\* record of that peer; so store never replaces a record, and no pending
\* bytes are lost by overwriting. (The records are a map keyed by the
\* peer: at most one per peer.)
C18_NoOverwrite ==
    pcI \in {"lines", "send"} => peer \notin DOMAIN lines.Records

\* The tail of a datagram is about to be stored for a peer whose earlier
\* fragment was popped and merged into the buffer of this datagram.
C18_Witness ==
    /\ pcI = "lines"
    /\ data # << >>
    /\ ReadBytes(data, NL).eof
    /\ Len(combined) > Len(buf)
    /\ peer \notin DOMAIN lines.Records
    /\ DOMAIN lines.Records # {}

\* C19. No underflow: at the reporter's reset the value loaded is at most
\* the counter, so the subtraction does not wrap below zero (no counter
\* ever reads above 2^31, which is where a wrapped value of the model's
\* few increments would be), and the counter after the reset is exactly the
\* number of increments that landed between the load and the reset.
C19_NoUnderflow ==
    [][ /\ \A c \in CounterNames : counters[c] >= 0 /\ counters'[c] >= 0
        /\ (pcR = "add" /\ pcR' = "stat") =>
              /\ rVal <= counters[rName]
              /\ counters'[rName] = counters[rName] - rVal
              /\ counters'[rName] = issued[rName] - loadedAt
              /\ issued' = issued
      ]_vars

\* The reset has left in the counter the increment that landed after the
\* load, and the reporter is about to send the value it loaded.
C19_Witness ==
    /\ pcR = "stat"
    /\ rVal >= 1
    /\ counters[rName] >= 1
    /\ issued[rName] = emitted[rName].rest + rVal + counters[rName]

\* The state of the listener: Unstarted until Listen has bound the socket,
\* Listening while the socket is open, Stopping from the close of the socket
\* until Stop returns, Stopped once Stop has returned.
LState ==
    IF conn = "nil" THEN "Unstarted"
    ELSE IF conn = "open" THEN "Listening"
    ELSE IF pcS # "returned" THEN "Stopping"
    ELSE "Stopped"

\* C20. Stop returns only on a receiver whose Listen succeeded: while the
\* receiver is Unstarted (Listen not called, or failed) no step closes
\* rcv.finished and Stop, if called, does not return. The state of the
\* listener moves only Unstarted -> Listening -> Stopping -> Stopped, one
\* step at a time and never backwards; rcv.exit and rcv.finished, once
\* closed, stay closed.
C20_Lifecycle ==
    [][ /\ conn = "nil" =>
              /\ ~finished /\ ~finished'
              /\ pcS # "returned" /\ pcS' # "returned"
        /\ pcS' = "returned" => conn' = "closed" /\ finished'
        /\ LState' # LState =>
              << LState, LState' >> \in
                  { << "Unstarted", "Listening" >>,
                    << "Listening", "Stopping" >>,
                    << "Stopping", "Stopped" >> }
        /\ exit => exit'
        /\ finished => finished'
      ]_vars

\* Stop was called on a receiver that is not listening, and waits.
C20_Witness ==
    /\ conn = "nil"
    /\ pcI = "idle"
    /\ pcR = "idle"
    /\ exit
    /\ pcS = "wait"
    /\ ~finished

====
